---------------------------- MODULE Spec2Model ----------------------------
(***************************************************************************)
(* Model of the signal-analysis engine of the playground:                  *)
(*   utils/entropyCalculator  (generateSignal, discretizeSignal,           *)
(*                             calculateJointProbability, calculateEntropy)*)
(*   utils/samplingCalculator (SIGNAL_CONFIG, originalSignal, sampleSignal,*)
(*                             sinc, sincReconstruct,                      *)
(*                             generateSampleTimePoints, getSamplingStatus)*)
(*                                                                         *)
(* JavaScript numbers are modelled as extended rationals: a record         *)
(* [num, den] with den > 0 in lowest terms, and den = 0 for the three      *)
(* non-finite values (1/0 = Infinity, -1/0 = -Infinity, 0/0 = NaN).        *)
(* Arithmetic on them is exact; binary floating-point rounding is not      *)
(* modelled.  Math.log2 is irrational, so entropies are fixed-point        *)
(* integers counting units of 2^-LogBits bits; Math.sin, Math.cos and      *)
(* Math.sqrt likewise, so amplitudes count units of 2^-TrigBits.           *)
(***************************************************************************)
EXTENDS Integers, Sequences, FiniteSets

VARIABLES
    signal,        \* SignalPoint[] handed to calculateEntropy
    config,        \* the bin count and range the caller asks for
    result,        \* what the last calculateEntropy call returned
    samplingRate,  \* fs handed to getSamplingStatus (the page's samplingRate)
    sampleStatus,  \* what getSamplingStatus returned for samplingRate
    sArgs,         \* arguments of the running generateSampleTimePoints call
    sT,            \* its local t
    sPoints,       \* its local points, then the sampleTimes of the caller
    sPc,           \* position of the sampling pipeline: "idle", "call", "loop",
                   \* "returned", "sampled", "reconstructed"
    sValues,       \* sampleValues = sampleSignal(sampleTimes)
    rT,            \* the t of the last sincReconstruct call
    rValue,        \* what that call returned
    signalConfig,  \* the exported object SIGNAL_CONFIG
    callLog,       \* for each signal, the results calculateEntropy returned
    gArgs,         \* N and noiseVariance of the generateSignal call, and
                   \* whether it has returned
    err,           \* the running calculateReconstructionError call
    pN,            \* EntropyStochasticProcess: N
    currentStep,   \* EntropyStochasticProcess: currentStep
    isAnimating,   \* EntropyStochasticProcess: isAnimating
    regenTimer,    \* the pending setTimeout callbacks of the effect on [N], each
                   \* named by the N it closes over
    autoTimer,     \* whether the setInterval of the effect on [signal.length] runs
    expandedSteps, \* FormulaBreakdown: expandedSteps
    voltage,       \* OhmsLaw: voltage
    current,       \* OhmsLaw: current, the current prop of CircuitVisualization
    resistance,    \* OhmsLaw: resistance
    activeVariable,\* OhmsLaw: activeVariable
    effectPending, \* OhmsLaw: the effect on [voltage, current, resistance,
                   \* activeVariable] is due
    electrons,     \* CircuitVisualization: the progress of each electron
    initPending,   \* CircuitVisualization: the effect on [numElectrons] is due
    animationFrame \* CircuitVisualization: animationFrame

vars == <<signal, config, result, samplingRate, sampleStatus,
          sArgs, sT, sPoints, sPc, sValues, rT, rValue, signalConfig,
          callLog, gArgs, err, pN, currentStep, isAnimating, regenTimer,
          autoTimer, expandedSteps, voltage, current, resistance,
          activeVariable, effectPending, electrons, initPending,
          animationFrame>>

entropyVars  == <<signal, config, result>>
classifyVars == <<samplingRate, sampleStatus>>
sampleVars   == <<sArgs, sT, sPoints, sPc, sValues, rT, rValue>>
otherVars    == <<signalConfig, callLog, gArgs>>
pageVars     == <<pN, currentStep, isAnimating, regenTimer, autoTimer,
                  expandedSteps>>
ohmVars      == <<voltage, current, resistance, activeVariable, effectPending>>
circuitVars  == <<electrons, initPending, animationFrame>>
uiVars       == <<err, pageVars, ohmVars, circuitVars>>

-----------------------------------------------------------------------------
(* Bounds of the model                                                     *)

\* longest signal enumerated sample by sample
MaxLen == 3
\* fractional bits kept by the fixed-point Math.log2
LogBits == 10
\* most repetitions of the one-sample-per-bin ramp
MaxReps == 2
\* most samples of a ramp moved into another bin
MaxSkew == 3
\* sampling rates near the Nyquist rate are multiples of 1/RateSteps Hz
RateSteps == 4
\* largest N generateSignal is called with
MaxGenerated == 3
\* intervals between the times the reconstruction error is taken over
ErrorPoints == 40
\* most calls of calculateEntropy logged for one signal
MaxCalls == 2
\* most points generateSampleTimePoints is followed for
MaxPoints == 64
\* fractional bits of the fixed-point Math.sin, Math.cos and amplitudes
TrigBits == 12
\* most ticks of the 50 ms animation interval followed
MaxFrames == 3

-----------------------------------------------------------------------------
(* JavaScript numbers as extended rationals                                *)

Abs(n) == IF n < 0 THEN -n ELSE n

Sign(n) == IF n < 0 THEN -1 ELSE IF n > 0 THEN 1 ELSE 0

\* Euclid's algorithm
GCD(a, b) ==
    LET gcd[x \in Nat, y \in Nat] == IF y = 0 THEN x ELSE gcd[y, x % y]
    IN  gcd[a, b]

\* n/d as a number: lowest terms, positive denominator; d = 0 gives
\* Infinity, -Infinity or NaN as IEEE division does
Rat(n, d) ==
    IF d = 0 THEN [num |-> Sign(n), den |-> 0]
    ELSE LET g == GCD(Abs(n), Abs(d))
         IN  [num |-> (Sign(d) * n) \div g, den |-> Abs(d) \div g]

Num(n) == [num |-> n, den |-> 1]

NaN == [num |-> 0, den |-> 0]

IsNaN(x) == x.den = 0 /\ x.num = 0

IsFinite(x) == x.den > 0

\* x + y
Add(x, y) ==
    IF IsFinite(x) /\ IsFinite(y)
        THEN Rat(x.num * y.den + y.num * x.den, x.den * y.den)
    ELSE IF IsNaN(x) \/ IsNaN(y) THEN NaN
    ELSE IF IsFinite(x) THEN y
    ELSE IF IsFinite(y) THEN x
    ELSE IF x.num = y.num THEN x ELSE NaN

Neg(x) == [num |-> -x.num, den |-> x.den]

Sub(x, y) == Add(x, Neg(y))

\* x / y
Div(x, y) ==
    IF IsNaN(x) \/ IsNaN(y) THEN NaN
    ELSE IF IsFinite(x) /\ IsFinite(y) THEN
        IF y.num = 0 THEN [num |-> Sign(x.num), den |-> 0]
        ELSE Rat(x.num * y.den, x.den * y.num)
    ELSE IF ~IsFinite(x) /\ ~IsFinite(y) THEN NaN
    ELSE IF IsFinite(x) THEN Num(0)
    ELSE [num |-> x.num * (IF y.num < 0 THEN -1 ELSE 1), den |-> 0]

\* x < y  (false when either is NaN)
Lt(x, y) ==
    IF IsNaN(x) \/ IsNaN(y) THEN FALSE
    ELSE IF IsFinite(x) /\ IsFinite(y) THEN x.num * y.den < y.num * x.den
    ELSE IF IsFinite(x) THEN y.num > 0
    ELSE IF IsFinite(y) THEN x.num < 0
    ELSE x.num < y.num

\* x <= y  (false when either is NaN)
Leq(x, y) == ~IsNaN(x) /\ ~IsNaN(y) /\ ~Lt(y, x)

\* Math.floor
Floor(x) == IF IsFinite(x) THEN Num(x.num \div x.den) ELSE x

\* Math.min(a, b) and Math.max(a, b): NaN if either is NaN
MathMin(a, b) == IF IsNaN(a) \/ IsNaN(b) THEN NaN ELSE IF Lt(b, a) THEN b ELSE a

MathMax(a, b) == IF IsNaN(a) \/ IsNaN(b) THEN NaN ELSE IF Lt(a, b) THEN b ELSE a

\* Math.abs
MathAbs(x) == [num |-> Abs(x.num), den |-> x.den]

-----------------------------------------------------------------------------
(* Math.log2 in fixed point                                                *)

\* 2^LogBits units make one bit of entropy
LogScale == 2 ^ LogBits

\* the mantissa carries three guard bits beyond the result
MantScale == 2 ^ (LogBits + 3)

RECURSIVE IntPart(_)
\* floor(log2(n)) for an integer n >= 1
IntPart(n) == IF n < 2 THEN 0 ELSE 1 + IntPart(n \div 2)

RECURSIVE FracBits(_, _)
\* the next `bits` binary digits of log2(x / MantScale), x / MantScale in [1, 2),
\* by repeated squaring
FracBits(x, bits) ==
    IF bits = 0 THEN 0
    ELSE LET sq == (x * x) \div MantScale
         IN  IF sq >= 2 * MantScale
                 THEN 2 ^ (bits - 1) + FracBits(sq \div 2, bits - 1)
                 ELSE FracBits(sq, bits - 1)

\* log2(n) * LogScale, truncated, for an integer n >= 1
IntLog2(n) ==
    LET k == IntPart(n)
    IN  k * LogScale + FracBits((n * MantScale) \div (2 ^ k), LogBits)

\* Math.log2(p) * LogScale for a finite p > 0
MathLog2(p) == IntLog2(p.num) - IntLog2(p.den)

-----------------------------------------------------------------------------
(* Math.sin and Math.cos in fixed point                                    *)

\* 2^TrigBits units make an amplitude of 1
TrigScale == 2 ^ TrigBits

\* Math.PI in units of 1/TrigScale
PiFix == (355 * TrigScale) \div 113

RECURSIVE SinSeries(_, _, _)
\* the Taylor series of sin from the term `term` (of odd degree 2k - 1) on, for
\* the squared angle sq
SinSeries(term, sq, k) ==
    IF term = 0 \/ k > 6 THEN 0
    ELSE term - SinSeries(((term * sq) \div TrigScale) \div (2 * k * (2 * k + 1)),
                          sq, k + 1)

\* sin(pi * y) * TrigScale for a rational 0 <= y <= 1/2
SinQuarter(y) ==
    LET theta == (PiFix * y.num) \div y.den
    IN  SinSeries(theta, (theta * theta) \div TrigScale, 1)

\* Math.sin(Math.PI * x) * TrigScale for a finite x: x is reduced into [0, 2)
\* and then into the first quarter turn
SinPi(x) ==
    LET y == Rat(x.num % (2 * x.den), x.den)
    IN  IF Leq(y, Rat(1, 2)) THEN SinQuarter(y)
        ELSE IF Leq(y, Num(1)) THEN SinQuarter(Sub(Num(1), y))
        ELSE IF Leq(y, Rat(3, 2)) THEN -SinQuarter(Sub(y, Num(1)))
        ELSE -SinQuarter(Sub(Num(2), y))

\* Math.cos(Math.PI * x) * TrigScale
CosPi(x) == SinPi(Add(x, Rat(1, 2)))

\* x * y
Mul(x, y) ==
    IF IsFinite(x) /\ IsFinite(y) THEN Rat(x.num * y.num, x.den * y.den)
    ELSE IF IsNaN(x) \/ IsNaN(y) \/ x.num = 0 \/ y.num = 0 THEN NaN
    ELSE [num |-> Sign(x.num) * Sign(y.num), den |-> 0]

-----------------------------------------------------------------------------
(* utils/entropyCalculator                                                 *)

\* const numBins = 20 of calculateEntropy, the default of the helpers
NumBins == 20

\* const min = -2, max = 2 of discretizeSignal
BinMin == Num(-2)

BinMax == Num(2)

\* mutant: the quotient is rounded to the nearest integer instead of floored
BinOf_Rounded(value, numBins) ==
    LET binWidth == Div(Sub(BinMax, BinMin), Num(numBins))
        bin      == Floor(Add(Div(Sub(value, BinMin), binWidth), Rat(1, 2)))
    IN  MathMax(Num(0), MathMin(Num(numBins - 1), bin))

\* the bin of one sample value: floor((value - min) / binWidth) clamped into
\* [0, numBins - 1]
BinOf(value, numBins) ==
    LET binWidth == Div(Sub(BinMax, BinMin), Num(numBins))
        bin      == Floor(Div(Sub(value, BinMin), binWidth))
    IN  MathMax(Num(0), MathMin(Num(numBins - 1), bin))

\* mutant: samples outside [min, max] are dropped instead of clamped
discretizeSignal_DropOutOfRange(sig, numBins) ==
    LET inRange == SelectSeq(sig, LAMBDA pt : Leq(BinMin, pt.value) /\ Leq(pt.value, BinMax))
    IN  [i \in 1 .. Len(inRange) |-> BinOf(inRange[i].value, numBins)]

\* mutant: the sample's index is binned instead of its value
discretizeSignal_ByIndex(sig, numBins) ==
    [i \in 1 .. Len(sig) |-> BinOf(Num(sig[i].index), numBins)]

\* mutant: the bin index is not clamped into [0, numBins - 1]
discretizeSignal_NoClamp(sig, numBins) ==
    [i \in 1 .. Len(sig) |->
        Floor(Div(Sub(sig[i].value, BinMin),
                  Div(Sub(BinMax, BinMin), Num(numBins))))]

\* discretizeSignal(signal, numBins): the bin of every sample, in order
discretizeSignal(sig, numBins) ==
    [i \in 1 .. Len(sig) |-> BinOf(sig[i].value, numBins)]

RECURSIVE Tally(_, _, _)
\* discretized.forEach(bin => counts[bin]++), the first n samples of it:
\* counts[b + 1] models counts[b], and only the numBins slots the array is
\* created with are modelled
Tally(discretized, counts, n) ==
    IF n = 0 THEN counts
    ELSE LET before == Tally(discretized, counts, n - 1)
             bin    == discretized[n]
             b      == IF bin.den = 1 THEN bin.num + 1 ELSE 0
         IN  [i \in DOMAIN before |-> IF i = b THEN before[i] + 1 ELSE before[i]]

\* the histogram calculateJointProbability builds before normalising
BinCounts(sig, numBins) ==
    LET discretized == discretizeSignal(sig, numBins)
    IN  Tally(discretized, [b \in 1 .. numBins |-> 0], Len(discretized))

\* mutant: counts are normalised by the bin count instead of the sample count
calculateJointProbability_DivByBins(sig, numBins) ==
    LET counts == BinCounts(sig, numBins)
    IN  [b \in 1 .. numBins |-> Div(Num(counts[b]), Num(numBins))]

\* mutant: the last bin is left out of the returned array
calculateJointProbability_ShortArray(sig, numBins) ==
    LET counts == BinCounts(sig, numBins)
        total  == Len(sig)
    IN  [b \in 1 .. numBins - 1 |-> Div(Num(counts[b]), Num(total))]

\* calculateJointProbability(signal, numBins): count / signal.length per bin
calculateJointProbability(sig, numBins) ==
    LET counts == BinCounts(sig, numBins)
        total  == Len(sig)
    IN  [b \in 1 .. numBins |-> Div(Num(counts[b]), Num(total))]

\* mutant: the sign of the contribution is lost
Contribution_SignLost(p) == (p.num * MathLog2(p)) \div p.den

\* -p * Math.log2(p), in units of 1/LogScale
Contribution(p) == -((p.num * MathLog2(p)) \div p.den)

\* mutant: Math.log2 is called for every bin, the empty ones too
Log2Calls_EveryBin(probabilities) == probabilities

\* the arguments Math.log2 is called with by probabilities.forEach, in order:
\* the p of the bins that pass `if (p > 0)`
Log2Calls(probabilities) ==
    SelectSeq(probabilities, LAMBDA p : Lt(Num(0), p))

\* const contributions: one -p * logP pushed per call of Math.log2
contributions(probabilities) ==
    LET calls == Log2Calls(probabilities)
    IN  [k \in 1 .. Len(calls) |-> Contribution(calls[k])]

RECURSIVE SumContributions(_, _)
\* probabilities.forEach over the first n bins: the contribution of every
\* p > 0 is added to entropy
SumContributions(probabilities, n) ==
    IF n = 0 THEN 0
    ELSE SumContributions(probabilities, n - 1)
         + (IF Lt(Num(0), probabilities[n])
                THEN Contribution(probabilities[n]) ELSE 0)

\* probabilities.length, the empty bins counted too
NonZeroBins_AllBins(probabilities) == Len(probabilities)

\* probabilities.filter(p => p > 0).length
NonZeroBins(probabilities) ==
    Cardinality({b \in DOMAIN probabilities : Lt(Num(0), probabilities[b])})

IntMax(a, b) == IF a < b THEN b ELSE a

NoResult == [kind |-> "none"]

\* the body of calculateEntropy with the returned entropy clamped at 1 bit
EntropyOfHistogram_ClampAtOne(sig) ==
    LET probabilities == calculateJointProbability(sig, NumBins)
        entropy       == SumContributions(probabilities, Len(probabilities))
    IN  [kind |-> "ok",
         entropy |-> IntMax(LogScale, entropy),
         probabilities |-> probabilities,
         stepByStep |-> <<
             [step |-> "1", value |-> Len(sig)],
             [step |-> "2", value |-> NonZeroBins(probabilities)],
             [step |-> "3", value |-> entropy],
             [step |-> "4", value |-> entropy] >>]

\* the body of calculateEntropy after its early return
EntropyOfHistogram(sig) ==
    LET probabilities == calculateJointProbability(sig, NumBins)
        entropy       == SumContributions(probabilities, Len(probabilities))
    IN  [kind |-> "ok",
         entropy |-> IntMax(0, entropy),
         probabilities |-> probabilities,
         stepByStep |-> <<
             [step |-> "1", value |-> Len(sig)],
             [step |-> "2", value |-> NonZeroBins(probabilities)],
             [step |-> "3", value |-> entropy],
             [step |-> "4", value |-> entropy] >>]

\* mutant: the early return for an empty signal is missing
calculateEntropy_NoEmptyGuard(sig) == EntropyOfHistogram(sig)

\* calculateEntropy answering from the last result when the length is the same
calculateEntropy_Cached(sig) ==
    IF /\ result.kind = "ok"
       /\ Len(sig) > 0
       /\ Len(result.stepByStep) > 0
       /\ result.stepByStep[1].value = Len(sig)
        THEN result
        ELSE IF Len(sig) = 0
        THEN [kind |-> "ok", entropy |-> 0, probabilities |-> <<>>,
              stepByStep |-> <<>>]
        ELSE EntropyOfHistogram(sig)

\* calculateEntropy(signal)
calculateEntropy(sig) ==
    IF Len(sig) = 0
        THEN [kind |-> "ok", entropy |-> 0, probabilities |-> <<>>,
              stepByStep |-> <<>>]
        ELSE EntropyOfHistogram(sig)

-----------------------------------------------------------------------------
(* Inputs of calculateEntropy                                              *)

Point(i, v) == [index |-> i, value |-> v]

\* sample values below, on and above the edges of [-2, 2] and inside it
SampleValues == {Rat(-5, 2), Num(-2), Num(0), Rat(1, 10), Num(2), Rat(5, 2)}

\* every signal of at most MaxLen samples over SampleValues
ShortSignals ==
    UNION {{[i \in 1 .. n |-> Point(i, f[i])] : f \in [1 .. n -> SampleValues]} :
           n \in 0 .. MaxLen}

\* the centre of bin b
RampValue(b) == Add(BinMin, Rat(4 * (2 * b + 1), 2 * NumBins))

\* reps samples per bin, the first skew of them moved into bin b
Ramp(reps, skew, b) ==
    [i \in 1 .. NumBins * reps |->
        Point(i, IF i <= skew THEN RampValue(b) ELSE RampValue((i - 1) % NumBins))]

LongSignals ==
    {Ramp(reps, skew, b) : reps \in 1 .. MaxReps, skew \in 0 .. MaxSkew,
                           b \in {0, NumBins \div 2, NumBins - 1}}

Signals == ShortSignals \cup LongSignals

\* the bin count and range the code uses
DefaultConfig == [numBins |-> NumBins, lo |-> -2, hi |-> 2]

\* what a caller may want to ask for: a bin count and a value range
Configs ==
    {DefaultConfig,
     [numBins |-> 10, lo |-> 0, hi |-> 1],
     [numBins |-> 0, lo |-> -2, hi |-> 2],
     [numBins |-> NumBins, lo |-> 2, hi |-> -2]}

-----------------------------------------------------------------------------
(* utils/samplingCalculator                                                *)

\* SIGNAL_CONFIG.nyquistRate
nyquistRate == 500

NoStatus == [status |-> "none", color |-> "none"]

\* the arguments of generateSampleTimePoints while it is not called
NoArgs == [start |-> Num(0), end |-> Num(0), fs |-> Num(1)]

\* no call of calculateEntropy has returned yet
NoLog == <<>>

\* no calculateReconstructionError call
NoError == [i |-> 0, sumSquaredError |-> 0, rms |-> 0, pc |-> "idle"]

\* no setTimeout pending
NoTimer == {}

\* no generateSignal call
NoGenerate == [N |-> 0, noiseVariance |-> Num(0), returned |-> FALSE]

\* SIGNAL_CONFIG with fMax left at the second frequency
SIGNAL_CONFIG_StaleFMax ==
    [f1 |-> 50, f2 |-> 100, f3 |-> 250, fMax |-> 100,
     nyquistRate |-> nyquistRate, dc |-> 7]

\* export const SIGNAL_CONFIG = { f1: 50, f2: 100, f3: 250, fMax: 250,
\*                                nyquistRate: 500, dc: 7 }
SIGNAL_CONFIG ==
    [f1 |-> 50, f2 |-> 100, f3 |-> 250, fMax |-> 250,
     nyquistRate |-> nyquistRate, dc |-> 7]

\* mutant: the 1 Hz tolerance is tested before fs > nyquistRate
getSamplingStatus_ToleranceFirst(fs) ==
    IF Lt(MathAbs(Sub(fs, Num(nyquistRate))), Num(1))
        THEN [status |-> "nyquist", color |-> "orange"]
    ELSE IF Lt(Num(nyquistRate), fs)
        THEN [status |-> "adequate", color |-> "green"]
    ELSE [status |-> "insufficient", color |-> "red"]

\* mutant: fs >= nyquistRate counts as adequate
getSamplingStatus_AtLeast(fs) ==
    IF Leq(Num(nyquistRate), fs)
        THEN [status |-> "adequate", color |-> "green"]
    ELSE IF Lt(MathAbs(Sub(fs, Num(nyquistRate))), Num(1))
        THEN [status |-> "nyquist", color |-> "orange"]
    ELSE [status |-> "insufficient", color |-> "red"]

\* getSamplingStatus(fs)
getSamplingStatus(fs) ==
    IF Lt(Num(nyquistRate), fs)
        THEN [status |-> "adequate", color |-> "green"]
    ELSE IF Lt(MathAbs(Sub(fs, Num(nyquistRate))), Num(1))
        THEN [status |-> "nyquist", color |-> "orange"]
    ELSE [status |-> "insufficient", color |-> "red"]

\* the values of the page's slider: min 100, max 1000, step 10
SliderRates == {Num(100 + 10 * k) : k \in 0 .. 90}

\* rates within 2 Hz of the Nyquist rate
NearRates ==
    {Rat(n, RateSteps) :
        n \in (nyquistRate - 2) * RateSteps .. (nyquistRate + 2) * RateSteps}

SamplingRates == SliderRates \cup NearRates

InitClassify ==
    /\ samplingRate \in SamplingRates
    /\ sampleStatus = NoStatus
    /\ signal = <<>>
    /\ config = DefaultConfig
    /\ result = NoResult
    /\ sArgs = NoArgs
    /\ sT = Num(0)
    /\ sPoints = <<>>
    /\ sPc = "idle"
    /\ sValues = <<>>
    /\ rT = Num(0)
    /\ rValue = 0
    /\ signalConfig = SIGNAL_CONFIG
    /\ err = NoError
    /\ pN = 20
    /\ currentStep = 0
    /\ isAnimating = FALSE
    /\ regenTimer = NoTimer
    /\ autoTimer = FALSE
    /\ expandedSteps = {}
    /\ voltage = Num(12)
    /\ current = Num(2)
    /\ resistance = Num(6)
    /\ activeVariable = "voltage"
    /\ effectPending = FALSE
    /\ electrons = <<>>
    /\ initPending = FALSE
    /\ animationFrame = 0
    /\ callLog = NoLog
    /\ gArgs = NoGenerate

\* const sampleStatus = getSamplingStatus(samplingRate)
CallGetSamplingStatus ==
    /\ sampleStatus' = getSamplingStatus(samplingRate)
    /\ UNCHANGED samplingRate

\* onChange of the slider: setSamplingRate(parseInt(e.target.value))
SetSamplingRate ==
    /\ \E v \in SliderRates : samplingRate' = v
    /\ sampleStatus' = NoStatus

-----------------------------------------------------------------------------
(* generateSampleTimePoints(start, end, fs), one loop iteration at a time  *)

SampleArgs ==
    {[start |-> a, end |-> b, fs |-> Num(f)] :
        a \in {Num(0), Rat(-1, 100)},
        b \in {Num(0), Rat(1, 100), Rat(1, 50), Rat(1, 20)},
        f \in {-100, -5, 0, 100, 250, 1000}}

\* const Ts = 1 / fs
Ts(args) == Div(Num(1), args.fs)

\* t <= end, the half-period tolerance left out
LoopCondition_NoTolerance(args, t) == Leq(t, args.end)

\* t <= end + Ts / 2
LoopCondition(args, t) == Leq(t, Add(args.end, Div(Ts(args), Num(2))))

InitSample ==
    /\ sArgs \in SampleArgs
    /\ sT = Num(0)
    /\ sPoints = <<>>
    /\ sPc = "call"
    /\ sValues = <<>>
    /\ rT = Num(0)
    /\ rValue = 0
    /\ signalConfig = SIGNAL_CONFIG
    /\ err = NoError
    /\ pN = 20
    /\ currentStep = 0
    /\ isAnimating = FALSE
    /\ regenTimer = NoTimer
    /\ autoTimer = FALSE
    /\ expandedSteps = {}
    /\ voltage = Num(12)
    /\ current = Num(2)
    /\ resistance = Num(6)
    /\ activeVariable = "voltage"
    /\ effectPending = FALSE
    /\ electrons = <<>>
    /\ initPending = FALSE
    /\ animationFrame = 0
    /\ callLog = NoLog
    /\ gArgs = NoGenerate
    /\ signal = <<>>
    /\ config = DefaultConfig
    /\ result = NoResult
    /\ samplingRate = Num(nyquistRate)
    /\ sampleStatus = NoStatus

\* const points = []; const Ts = 1 / fs; let t = start
SampleEnter ==
    /\ sPc = "call"
    /\ sT' = sArgs.start
    /\ sPoints' = <<>>
    /\ sPc' = "loop"
    /\ UNCHANGED <<sArgs, sValues, rT, rValue>>

\* mutant: the iteration pushes t and leaves it where it is
SampleLoop_NoAdvance ==
    /\ sPc = "loop"
    /\ LoopCondition(sArgs, sT)
    /\ Len(sPoints) < MaxPoints
    /\ sPoints' = Append(sPoints, sT)
    /\ sT' = sT
    /\ UNCHANGED <<sArgs, sPc, sValues, rT, rValue>>

\* one iteration of the while loop: points.push(t); t += Ts
SampleLoop ==
    /\ sPc = "loop"
    /\ LoopCondition(sArgs, sT)
    /\ Len(sPoints) < MaxPoints
    /\ sPoints' = Append(sPoints, sT)
    /\ sT' = Add(sT, Ts(sArgs))
    /\ UNCHANGED <<sArgs, sPc, sValues, rT, rValue>>

\* the loop condition fails: return points
SampleReturn ==
    /\ sPc = "loop"
    /\ ~LoopCondition(sArgs, sT)
    /\ sPc' = "returned"
    /\ UNCHANGED <<sArgs, sT, sPoints, sValues, rT, rValue>>

-----------------------------------------------------------------------------
(* originalSignal, sampleSignal, sinc and sincReconstruct.  Amplitudes are  *)
(* fixed-point integers in units of 1/TrigScale.                           *)

\* x(t) = cos(2 pi f1 t) + sin(2 pi f2 t) + cos(2 pi f3 t + pi/4) + dc
originalSignal(t) ==
    LET f1 == signalConfig.f1
        f2 == signalConfig.f2
        f3 == signalConfig.f3
        dc == signalConfig.dc
        component1 == CosPi(Mul(Num(2 * f1), t))
        component2 == SinPi(Mul(Num(2 * f2), t))
        component3 == CosPi(Add(Mul(Num(2 * f3), t), Rat(1, 4)))
    IN  component1 + component2 + component3 + dc * TrigScale

\* timePoints.map(t => originalSignal(t))
sampleSignal(timePoints) ==
    [i \in 1..Len(timePoints) |-> originalSignal(timePoints[i])]

\* sinc without the guard value 1 at x = 0
sinc_ZeroAtZero(x) ==
    LET a == MathAbs(x)
    IN  IF a.num = 0 THEN 0
        ELSE LET piX == (PiFix * a.num) \div a.den
             IN  (2 * SinPi(a) * TrigScale + piX) \div (2 * piX)

\* if (Math.abs(x) < 1e-10) return 1; return sin(pi x) / (pi x).  No non-zero
\* number of the model is below 1e-10 in magnitude, and sin(pi x) / (pi x) is
\* even in x; the quotient is rounded to the nearest unit
sinc(x) ==
    LET a == MathAbs(x)
    IN  IF a.num = 0 THEN TrigScale
        ELSE LET piX == (PiFix * a.num) \div a.den
             IN  (2 * SinPi(a) * TrigScale + piX) \div (2 * piX)

\* const windowSize = 20
windowSize == 20

RECURSIVE FindFrom(_, _, _)
FindFrom(sampleTimes, t, i) ==
    IF i > Len(sampleTimes) THEN -1
    ELSE IF Leq(t, sampleTimes[i]) THEN i - 1
    ELSE FindFrom(sampleTimes, t, i + 1)

\* sampleTimes.findIndex(ts => ts > t)
centerIndex_StrictlyLater(t, sampleTimes) ==
    LET c == FindFrom(sampleTimes, t, 1)
    IN  IF c = -1 \/ sampleTimes[c + 1] # t THEN c
        ELSE IF c + 1 < Len(sampleTimes) THEN c + 1
        ELSE -1

\* sampleTimes.findIndex(ts => ts >= t): a 0-based index, -1 when there is none
centerIndex(t, sampleTimes) == FindFrom(sampleTimes, t, 1)

\* Math.max(0, sampleTimes.length - windowSize) when no sample time is >= t,
\* Math.max(0, centerIndex - windowSize) otherwise
startIdx(t, sampleTimes) ==
    IF centerIndex(t, sampleTimes) = -1
    THEN IntMax(0, Len(sampleTimes) - windowSize)
    ELSE IntMax(0, centerIndex(t, sampleTimes) - windowSize)

\* the whole array after the centre
endIdx_ToTheEnd(t, sampleTimes) == Len(sampleTimes)

\* one past the last index of the window: sampleTimes.length when no sample
\* time is >= t, Math.min(sampleTimes.length, centerIndex + windowSize)
\* otherwise
endIdx(t, sampleTimes) ==
    IF centerIndex(t, sampleTimes) = -1
    THEN Len(sampleTimes)
    ELSE IF centerIndex(t, sampleTimes) + windowSize < Len(sampleTimes)
         THEN centerIndex(t, sampleTimes) + windowSize
         ELSE Len(sampleTimes)

\* the 0-based indices i the two for loops read sampleTimes[i] and samples[i] at
WindowIndices(t, sampleTimes) ==
    startIdx(t, sampleTimes) .. (endIdx(t, sampleTimes) - 1)

RECURSIVE SumWindow(_, _, _, _, _, _)
\* sum += samples[i] * sinc((t - t_n) / Ts) for i from `i` to `last`; the sum
\* is kept with four more fractional bits than an amplitude
SumWindow(t, sampleTimes, samples, T, i, last) ==
    IF i > last THEN 0
    ELSE (samples[i + 1] * sinc(Div(Sub(t, sampleTimes[i + 1]), T)))
             \div (TrigScale \div 16)
         + SumWindow(t, sampleTimes, samples, T, i + 1, last)

\* the sum of the loop as an amplitude, rounded to the nearest unit
WindowSum(t, sampleTimes, samples, T, first, last) ==
    (SumWindow(t, sampleTimes, samples, T, first, last) + 8) \div 16

\* sincReconstruct(t, sampleTimes, samples, Ts)
sincReconstruct(t, sampleTimes, samples, T) ==
    WindowSum(t, sampleTimes, samples, T,
              startIdx(t, sampleTimes), endIdx(t, sampleTimes) - 1)

\* the times the reconstruction is asked for: the sample grid and the points
\* halfway between its points, from before the first to after the last
ReconstructTimes ==
    {Add(sArgs.start, Mul(Rat(k, 2), Ts(sArgs))) :
        k \in (-2) .. (2 * Len(sPoints) + 2)}

\* const sampleValues = sampleSignal(sampleTimes)
SampleSignal ==
    /\ sPc = "returned"
    /\ sValues' = sampleSignal(sPoints)
    /\ sPc' = "sampled"
    /\ UNCHANGED <<sArgs, sT, sPoints, rT, rValue>>

\* continuousTimes.map(t => sincReconstruct(t, sampleTimes, sampleValues,
\*                                          1 / samplingRate)), for one t of
\* the map
Reconstruct ==
    /\ sPc = "sampled"
    /\ \E t \in ReconstructTimes :
           /\ rT' = t
           /\ rValue' = sincReconstruct(t, sPoints, sValues, Ts(sArgs))
    /\ sPc' = "reconstructed"
    /\ UNCHANGED <<sArgs, sT, sPoints, sValues>>

-----------------------------------------------------------------------------
(* The entropy estimator called on one input                               *)

InitEntropy ==
    /\ signal \in Signals
    /\ config \in Configs
    /\ result = NoResult
    /\ samplingRate = Num(nyquistRate)
    /\ sampleStatus = NoStatus
    /\ sArgs = NoArgs
    /\ sT = Num(0)
    /\ sPoints = <<>>
    /\ sPc = "idle"
    /\ sValues = <<>>
    /\ rT = Num(0)
    /\ rValue = 0
    /\ signalConfig = SIGNAL_CONFIG
    /\ err = NoError
    /\ pN = 20
    /\ currentStep = 0
    /\ isAnimating = FALSE
    /\ regenTimer = NoTimer
    /\ autoTimer = FALSE
    /\ expandedSteps = {}
    /\ voltage = Num(12)
    /\ current = Num(2)
    /\ resistance = Num(6)
    /\ activeVariable = "voltage"
    /\ effectPending = FALSE
    /\ electrons = <<>>
    /\ initPending = FALSE
    /\ animationFrame = 0
    /\ callLog = NoLog
    /\ gArgs = NoGenerate

\* the call, its discretization writing the clamped value back into each point
CallCalculateEntropy_ClampsInPlace ==
    /\ result' = calculateEntropy(signal)
    /\ signal' = [i \in 1..Len(signal) |->
                     Point(signal[i].index,
                           MathMax(BinMin, MathMin(BinMax, signal[i].value)))]
    /\ UNCHANGED config

\* const { entropy, stepByStep } = calculateEntropy(signal): the signal is the
\* only argument the function has
CallCalculateEntropy ==
    /\ result' = calculateEntropy(signal)
    /\ UNCHANGED <<signal, config>>

-----------------------------------------------------------------------------
(* generateSignal(N, noiseVariance).  The values are computed in units of  *)
(* 1/TrigScale; draws[i] is what Math.random() returns in iteration i.     *)

RECURSIVE SqrtBetween(_, _, _)
\* the largest r in lo..hi with r * r <= n
SqrtBetween(n, lo, hi) ==
    IF lo = hi THEN lo
    ELSE LET mid == (lo + hi + 1) \div 2
         IN  IF mid * mid <= n THEN SqrtBetween(n, mid, hi)
             ELSE SqrtBetween(n, lo, mid - 1)

\* Math.sqrt(x) * TrigScale for a finite x >= 0
MathSqrt(x) == SqrtBetween((x.num * TrigScale * TrigScale) \div x.den, 0, 46340)

\* Math.sin((i / N) * 2 * Math.PI) * 0.5
BaseValue(i, N) == SinPi(Rat(2 * i, N)) \div 2

\* (Math.random() - 0.5) * 2 * Math.sqrt(noiseVariance) for the draw r
Noise(r, noiseVariance) ==
    ((2 * r.num - r.den) * MathSqrt(noiseVariance)) \div r.den

\* the value pushed in iteration i, the clamp left out
PointValue_Unclamped(i, N, noiseVariance, r) ==
    IF Lt(noiseVariance, Num(0)) THEN NaN
    ELSE Rat(BaseValue(i, N) + Noise(r, noiseVariance), TrigScale)

\* Math.max(-2, Math.min(2, baseValue + noise)); Math.sqrt of a negative
\* variance is NaN, and so is the value then
PointValue(i, N, noiseVariance, r) ==
    IF Lt(noiseVariance, Num(0)) THEN NaN
    ELSE MathMax(Num(-2), MathMin(Num(2),
             Rat(BaseValue(i, N) + Noise(r, noiseVariance), TrigScale)))

\* for (let i = 1; i <= N; i++) signal.push({ index: i, value: ... })
generateSignal(N, noiseVariance, draws) ==
    [i \in 1..N |-> Point(i, PointValue(i, N, noiseVariance, draws[i]))]

\* values Math.random() returns: 0 <= r < 1
RandomDraws == {Num(0), Rat(1, 4), Rat(1, 2), Rat(3, 4), Rat(999, 1000)}

GenerateArgs ==
    {[N |-> n, noiseVariance |-> v, returned |-> FALSE] :
        n \in (-1)..MaxGenerated,
        v \in {Num(-1), Num(0), Rat(1, 2), Num(16)}}

InitGenerate ==
    /\ gArgs \in GenerateArgs
    /\ signal = <<>>
    /\ config = DefaultConfig
    /\ result = NoResult
    /\ callLog = NoLog
    /\ samplingRate = Num(nyquistRate)
    /\ sampleStatus = NoStatus
    /\ sArgs = NoArgs
    /\ sT = Num(0)
    /\ sPoints = <<>>
    /\ sPc = "idle"
    /\ sValues = <<>>
    /\ rT = Num(0)
    /\ rValue = 0
    /\ signalConfig = SIGNAL_CONFIG
    /\ err = NoError
    /\ pN = 20
    /\ currentStep = 0
    /\ isAnimating = FALSE
    /\ regenTimer = NoTimer
    /\ autoTimer = FALSE
    /\ expandedSteps = {}
    /\ voltage = Num(12)
    /\ current = Num(2)
    /\ resistance = Num(6)
    /\ activeVariable = "voltage"
    /\ effectPending = FALSE
    /\ electrons = <<>>
    /\ initPending = FALSE
    /\ animationFrame = 0

\* const newSignal = generateSignal(N, noiseVariance); setSignal(newSignal)
GenerateSignal ==
    /\ ~gArgs.returned
    /\ \E draws \in [1..gArgs.N -> RandomDraws] :
           signal' = generateSignal(gArgs.N, gArgs.noiseVariance, draws)
    /\ gArgs' = [gArgs EXCEPT !.returned = TRUE]
    /\ UNCHANGED <<config, result>>

-----------------------------------------------------------------------------
(* calculateEntropy called again and again, with a log of what it returned *)

\* the signals the page passes to FormulaBreakdown, one after the other
CallSignals ==
    {<<>>,
     <<Point(1, Num(0))>>,
     <<Point(1, Num(0)), Point(2, Num(2))>>,
     <<Point(1, Num(-2)), Point(2, Rat(1, 10))>>,
     <<Point(1, Num(0)), Point(2, Num(0)), Point(3, Num(2))>>}

InitCalls ==
    /\ signal \in CallSignals
    /\ config = DefaultConfig
    /\ result = NoResult
    /\ callLog = [s \in CallSignals |-> [count |-> 0, results |-> {}]]
    /\ samplingRate = Num(nyquistRate)
    /\ sampleStatus = NoStatus
    /\ sArgs = NoArgs
    /\ sT = Num(0)
    /\ sPoints = <<>>
    /\ sPc = "idle"
    /\ sValues = <<>>
    /\ rT = Num(0)
    /\ rValue = 0
    /\ signalConfig = SIGNAL_CONFIG
    /\ err = NoError
    /\ pN = 20
    /\ currentStep = 0
    /\ isAnimating = FALSE
    /\ regenTimer = NoTimer
    /\ autoTimer = FALSE
    /\ expandedSteps = {}
    /\ voltage = Num(12)
    /\ current = Num(2)
    /\ resistance = Num(6)
    /\ activeVariable = "voltage"
    /\ effectPending = FALSE
    /\ electrons = <<>>
    /\ initPending = FALSE
    /\ animationFrame = 0
    /\ gArgs = NoGenerate

\* a render of FormulaBreakdown: calculateEntropy(signal), the result logged
\* under the signal
RenderBreakdown ==
    /\ callLog[signal].count < MaxCalls
    /\ CallCalculateEntropy
    /\ callLog' = [callLog EXCEPT ![signal] =
                      [count |-> @.count + 1, results |-> @.results \cup {result'}]]

\* the page hands FormulaBreakdown another signal
PassSignal ==
    /\ \E s \in CallSignals : signal' = s
    /\ UNCHANGED <<config, result, callLog>>

-----------------------------------------------------------------------------
(* pages/EntropyStochasticProcess with its FormulaBreakdown                *)

\* values of the NSlider (min 5, max 50) the model moves it to
SliderNs == {5, 6, 7, 8, 20, 50}

\* what Math.random() returns over one generateSignal call: the draws of
\* RandomDraws in turn, from the seed-th on
DrawList == <<Num(0), Rat(1, 4), Rat(1, 2), Rat(3, 4), Rat(999, 1000)>>

Seeds == 0..(Len(DrawList) - 1)

DrawsFrom(seed, N) == [i \in 1..N |-> DrawList[((seed + i) % Len(DrawList)) + 1]]

\* const maxSteps = 4
maxSteps == 4

\* stepByStep.length of the FormulaBreakdown rendered for the signal
StepCount == Len(calculateEntropy(signal).stepByStep)

\* the page after its first render and effects: the regeneration for N = 20 is
\* scheduled, the signal is still empty and no interval runs
InitPage ==
    /\ pN = 20
    /\ signal = <<>>
    /\ currentStep = 0
    /\ isAnimating = TRUE
    /\ regenTimer = {20}
    /\ autoTimer = FALSE
    /\ expandedSteps = {}
    /\ config = DefaultConfig
    /\ result = NoResult
    /\ samplingRate = Num(nyquistRate)
    /\ sampleStatus = NoStatus
    /\ sArgs = NoArgs
    /\ sT = Num(0)
    /\ sPoints = <<>>
    /\ sPc = "idle"
    /\ sValues = <<>>
    /\ rT = Num(0)
    /\ rValue = 0
    /\ signalConfig = SIGNAL_CONFIG
    /\ callLog = NoLog
    /\ gArgs = NoGenerate
    /\ err = NoError
    /\ voltage = Num(12)
    /\ current = Num(2)
    /\ resistance = Num(6)
    /\ activeVariable = "voltage"
    /\ effectPending = FALSE
    /\ electrons = <<>>
    /\ initPending = FALSE
    /\ animationFrame = 0

\* the slider is moved without the pending timeout being cleared
SetN_NoCleanup ==
    \E v \in SliderNs \ {pN} :
        /\ pN' = v
        /\ isAnimating' = TRUE
        /\ regenTimer' = regenTimer \cup {v}
        /\ UNCHANGED <<signal, currentStep, autoTimer, expandedSteps>>

\* the slider is moved: setN(v); the effect on [N] runs again: its cleanup
\* clears the pending timeout, setIsAnimating(true), and a new timeout is set
\* whose callback closes over the new N
SetN ==
    \E v \in SliderNs \ {pN} :
        /\ pN' = v
        /\ isAnimating' = TRUE
        /\ regenTimer' = {v}
        /\ UNCHANGED <<signal, currentStep, autoTimer, expandedSteps>>

\* a timeout callback runs after its 100 ms: generateSignal(N, 0.5),
\* setSignal, setCurrentStep(0), setIsAnimating(false); then the effect on
\* [signal.length] clears its interval and sets one if the signal has samples
FireRegenerate ==
    \E n \in regenTimer, seed \in Seeds :
        /\ signal' = generateSignal(n, Rat(1, 2), DrawsFrom(seed, n))
        /\ currentStep' = 0
        /\ isAnimating' = FALSE
        /\ regenTimer' = regenTimer \ {n}
        /\ autoTimer' = (Len(signal') # 0)
        /\ UNCHANGED <<pN, expandedSteps>>

\* the interval callback with the step wrapping round after the last one
Tick_Wraps ==
    /\ autoTimer
    /\ currentStep' = IF currentStep < maxSteps - 1 THEN currentStep + 1 ELSE 0
    /\ UNCHANGED <<pN, signal, isAnimating, regenTimer, autoTimer, expandedSteps>>

\* the interval callback, every 2000 ms:
\* setCurrentStep(prev => prev < maxSteps - 1 ? prev + 1 : prev)
Tick ==
    /\ autoTimer
    /\ currentStep' = IF currentStep < maxSteps - 1
                          THEN currentStep + 1 ELSE currentStep
    /\ UNCHANGED <<pN, signal, isAnimating, regenTimer, autoTimer, expandedSteps>>

\* a click on the row of step index: onStepChange(index)
ClickStep ==
    \E index \in 0..(StepCount - 1) :
        /\ currentStep' = index
        /\ UNCHANGED <<pN, signal, isAnimating, regenTimer, autoTimer,
                       expandedSteps>>

\* Previous Step, disabled when currentStep === 0:
\* onStepChange(Math.max(0, currentStep - 1))
PreviousStep ==
    /\ currentStep # 0
    /\ currentStep' = IntMax(0, currentStep - 1)
    /\ UNCHANGED <<pN, signal, isAnimating, regenTimer, autoTimer, expandedSteps>>

\* Next Step, disabled when currentStep === stepByStep.length - 1:
\* onStepChange(Math.min(stepByStep.length - 1, currentStep + 1))
NextStep ==
    /\ currentStep # StepCount - 1
    /\ currentStep' = IF StepCount - 1 < currentStep + 1
                          THEN StepCount - 1 ELSE currentStep + 1
    /\ UNCHANGED <<pN, signal, isAnimating, regenTimer, autoTimer, expandedSteps>>

\* Show Final Result: onStepChange(stepByStep.length - 1)
ShowFinalResult ==
    /\ currentStep' = StepCount - 1
    /\ UNCHANGED <<pN, signal, isAnimating, regenTimer, autoTimer, expandedSteps>>

\* toggleExpand that only ever adds the index
toggleExpand_AddOnly(expanded, index) == expanded \cup {index}

\* toggleExpand of the row of step index: a copy of expandedSteps with the
\* index deleted if the row is expanded and added if it is not
toggleExpand(expanded, index) ==
    IF index \in expanded THEN expanded \ {index} ELSE expanded \cup {index}

\* a click on the expand button of the row of step index:
\* e.stopPropagation(), so the row's onClick does not run;
\* setExpandedSteps(newExpanded)
ToggleExpand ==
    \E index \in 0..(StepCount - 1) :
        /\ expandedSteps' = toggleExpand(expandedSteps, index)
        /\ UNCHANGED <<pN, signal, currentStep, isAnimating, regenTimer,
                       autoTimer>>

-----------------------------------------------------------------------------
(* The round trip: sample, reconstruct, calculateReconstructionError.  The *)
(* error is taken at ErrorPoints + 1 equally spaced times of the interior  *)
(* [0.005, 0.015] of the time window [0, 0.02].                            *)

RoundTripArgs ==
    {[start |-> Num(0), end |-> Rat(1, 50), fs |-> Num(f)] :
        f \in {200, 1000, 2000}}

\* the i-th time the signals are compared at, i from 0
ErrorTime(i) == Add(Rat(1, 200), Rat(i, 100 * ErrorPoints))

\* original[i] - reconstructed[i]
ErrorAt(i) ==
    originalSignal(ErrorTime(i))
        - sincReconstruct(ErrorTime(i), sPoints, sValues, Ts(sArgs))

\* Math.sqrt(sumSquaredError / original.length), the sum and the root in units
\* of 1/TrigScale
RootMeanSquare(sumSquaredError, length) ==
    SqrtBetween(((sumSquaredError * 16) \div length) * (TrigScale \div 16),
                0, 46340)

InitRoundTrip ==
    /\ sArgs \in RoundTripArgs
    /\ sT = Num(0)
    /\ sPoints = <<>>
    /\ sPc = "call"
    /\ sValues = <<>>
    /\ rT = Num(0)
    /\ rValue = 0
    /\ err = NoError
    /\ signal = <<>>
    /\ config = DefaultConfig
    /\ result = NoResult
    /\ samplingRate = Num(nyquistRate)
    /\ sampleStatus = NoStatus
    /\ signalConfig = SIGNAL_CONFIG
    /\ callLog = NoLog
    /\ gArgs = NoGenerate
    /\ pN = 20
    /\ currentStep = 0
    /\ isAnimating = FALSE
    /\ regenTimer = NoTimer
    /\ autoTimer = FALSE
    /\ expandedSteps = {}
    /\ voltage = Num(12)
    /\ current = Num(2)
    /\ resistance = Num(6)
    /\ activeVariable = "voltage"
    /\ effectPending = FALSE
    /\ electrons = <<>>
    /\ initPending = FALSE
    /\ animationFrame = 0

\* calculateReconstructionError(original, reconstructed, timePoints) is
\* entered; the two arrays are maps over the same times, of equal length
ErrorEnter ==
    /\ sPc = "sampled"
    /\ err.pc = "idle"
    /\ err' = [i |-> 0, sumSquaredError |-> 0, rms |-> 0, pc |-> "loop"]

\* const error = original[i] - reconstructed[i];
\* sumSquaredError += error * error
ErrorLoop ==
    /\ err.pc = "loop"
    /\ err.i < ErrorPoints + 1
    /\ err' = [err EXCEPT
                  !.sumSquaredError = @ + (ErrorAt(err.i) * ErrorAt(err.i))
                                              \div TrigScale,
                  !.i = @ + 1]

\* return Math.sqrt(sumSquaredError / original.length)
ErrorReturn ==
    /\ err.pc = "loop"
    /\ err.i = ErrorPoints + 1
    /\ err' = [err EXCEPT
                  !.rms = RootMeanSquare(err.sumSquaredError, ErrorPoints + 1),
                  !.pc = "returned"]

-----------------------------------------------------------------------------
(* The estimator and the sampling pipeline side by side                    *)

FrameSignals ==
    {<<>>,
     <<Point(1, Num(0)), Point(2, Rat(5, 2))>>,
     <<Point(1, Rat(-5, 2)), Point(2, Rat(1, 10)), Point(3, Num(2))>>}

FrameArgs ==
    {[start |-> Num(0), end |-> Rat(1, 100), fs |-> Num(f)] :
        f \in {-100, 0, 250, 1000}}

InitFrame ==
    /\ signal \in FrameSignals
    /\ config = DefaultConfig
    /\ result = NoResult
    /\ sArgs \in FrameArgs
    /\ sT = Num(0)
    /\ sPoints = <<>>
    /\ sPc = "call"
    /\ sValues = <<>>
    /\ rT = Num(0)
    /\ rValue = 0
    /\ samplingRate = Num(nyquistRate)
    /\ sampleStatus = NoStatus
    /\ signalConfig = SIGNAL_CONFIG
    /\ err = NoError
    /\ pN = 20
    /\ currentStep = 0
    /\ isAnimating = FALSE
    /\ regenTimer = NoTimer
    /\ autoTimer = FALSE
    /\ expandedSteps = {}
    /\ voltage = Num(12)
    /\ current = Num(2)
    /\ resistance = Num(6)
    /\ activeVariable = "voltage"
    /\ effectPending = FALSE
    /\ electrons = <<>>
    /\ initPending = FALSE
    /\ animationFrame = 0
    /\ callLog = NoLog
    /\ gArgs = NoGenerate

-----------------------------------------------------------------------------
(* Specifications: one per component, the other components idle            *)

NextCalls ==
    \/ RenderBreakdown
           /\ UNCHANGED <<classifyVars, sampleVars, signalConfig, gArgs, uiVars>>
    \/ PassSignal /\ UNCHANGED <<classifyVars, sampleVars, signalConfig, gArgs, uiVars>>

SpecCalls == InitCalls /\ [][NextCalls]_vars

NextFrame ==
    \/ CallCalculateEntropy /\ UNCHANGED <<classifyVars, sampleVars, otherVars, uiVars>>
    \/ SampleEnter /\ UNCHANGED <<entropyVars, classifyVars, otherVars, uiVars>>
    \/ SampleLoop /\ UNCHANGED <<entropyVars, classifyVars, otherVars, uiVars>>
    \/ SampleReturn /\ UNCHANGED <<entropyVars, classifyVars, otherVars, uiVars>>
    \/ SampleSignal /\ UNCHANGED <<entropyVars, classifyVars, otherVars, uiVars>>
    \/ Reconstruct /\ UNCHANGED <<entropyVars, classifyVars, otherVars, uiVars>>

SpecFrame == InitFrame /\ [][NextFrame]_vars

NextRoundTrip ==
    \/ SampleEnter /\ UNCHANGED <<entropyVars, classifyVars, otherVars, uiVars>>
    \/ SampleLoop /\ UNCHANGED <<entropyVars, classifyVars, otherVars, uiVars>>
    \/ SampleReturn /\ UNCHANGED <<entropyVars, classifyVars, otherVars, uiVars>>
    \/ SampleSignal /\ UNCHANGED <<entropyVars, classifyVars, otherVars, uiVars>>
    \/ ErrorEnter
           /\ UNCHANGED <<entropyVars, classifyVars, sampleVars, otherVars,
                          pageVars, ohmVars, circuitVars>>
    \/ ErrorLoop
           /\ UNCHANGED <<entropyVars, classifyVars, sampleVars, otherVars,
                          pageVars, ohmVars, circuitVars>>
    \/ ErrorReturn
           /\ UNCHANGED <<entropyVars, classifyVars, sampleVars, otherVars,
                          pageVars, ohmVars, circuitVars>>

SpecRoundTrip == InitRoundTrip /\ [][NextRoundTrip]_vars

\* what no action of the entropy page changes
pageFrame ==
    <<config, result, classifyVars, sampleVars, otherVars, err, ohmVars,
      circuitVars>>

NextPage ==
    \/ SetN /\ UNCHANGED pageFrame
    \/ FireRegenerate /\ UNCHANGED pageFrame
    \/ Tick /\ UNCHANGED pageFrame
    \/ ClickStep /\ UNCHANGED pageFrame
    \/ PreviousStep /\ UNCHANGED pageFrame
    \/ NextStep /\ UNCHANGED pageFrame
    \/ ShowFinalResult /\ UNCHANGED pageFrame

SpecPage == InitPage /\ [][NextPage]_vars

\* the signals the page can show once a regeneration has run
GeneratedSignals ==
    {generateSignal(n, Rat(1, 2), DrawsFrom(seed, n)) :
        n \in SliderNs, seed \in Seeds}

\* the page left alone by the user after a regeneration: the signal has N
\* samples, the step is 0 and the interval of the second effect runs
InitAuto ==
    /\ signal \in GeneratedSignals
    /\ pN = Len(signal)
    /\ currentStep = 0
    /\ isAnimating = FALSE
    /\ regenTimer = NoTimer
    /\ autoTimer = TRUE
    /\ expandedSteps = {}
    /\ config = DefaultConfig
    /\ result = NoResult
    /\ samplingRate = Num(nyquistRate)
    /\ sampleStatus = NoStatus
    /\ sArgs = NoArgs
    /\ sT = Num(0)
    /\ sPoints = <<>>
    /\ sPc = "idle"
    /\ sValues = <<>>
    /\ rT = Num(0)
    /\ rValue = 0
    /\ signalConfig = SIGNAL_CONFIG
    /\ callLog = NoLog
    /\ gArgs = NoGenerate
    /\ err = NoError
    /\ voltage = Num(12)
    /\ current = Num(2)
    /\ resistance = Num(6)
    /\ activeVariable = "voltage"
    /\ effectPending = FALSE
    /\ electrons = <<>>
    /\ initPending = FALSE
    /\ animationFrame = 0

NextAuto ==
    Tick /\ UNCHANGED pageFrame

SpecAuto == InitAuto /\ [][NextAuto]_vars

\* setInterval(f, 2000) keeps calling f until it is cleared
SpecAutoFair == SpecAuto /\ WF_vars(Tick /\ UNCHANGED pageFrame)

\* the signals FormulaBreakdown is rendered with: the empty one of the first
\* render and generated ones
BreakdownSignals ==
    {<<>>} \cup {generateSignal(5, Rat(1, 2), DrawsFrom(seed, 5)) : seed \in Seeds}

\* FormulaBreakdown mounted by the page: no row expanded
InitBreakdown ==
    /\ signal \in BreakdownSignals
    /\ pN = IF Len(signal) = 0 THEN 20 ELSE Len(signal)
    /\ currentStep = 0
    /\ isAnimating = (Len(signal) = 0)
    /\ regenTimer = IF Len(signal) = 0 THEN {20} ELSE NoTimer
    /\ autoTimer = (Len(signal) # 0)
    /\ expandedSteps = {}
    /\ config = DefaultConfig
    /\ result = NoResult
    /\ samplingRate = Num(nyquistRate)
    /\ sampleStatus = NoStatus
    /\ sArgs = NoArgs
    /\ sT = Num(0)
    /\ sPoints = <<>>
    /\ sPc = "idle"
    /\ sValues = <<>>
    /\ rT = Num(0)
    /\ rValue = 0
    /\ signalConfig = SIGNAL_CONFIG
    /\ callLog = NoLog
    /\ gArgs = NoGenerate
    /\ err = NoError
    /\ voltage = Num(12)
    /\ current = Num(2)
    /\ resistance = Num(6)
    /\ activeVariable = "voltage"
    /\ effectPending = FALSE
    /\ electrons = <<>>
    /\ initPending = FALSE
    /\ animationFrame = 0

\* the handlers of FormulaBreakdown
NextBreakdown ==
    \/ ToggleExpand /\ UNCHANGED pageFrame
    \/ ClickStep /\ UNCHANGED pageFrame
    \/ PreviousStep /\ UNCHANGED pageFrame
    \/ NextStep /\ UNCHANGED pageFrame
    \/ ShowFinalResult /\ UNCHANGED pageFrame

SpecBreakdown == InitBreakdown /\ [][NextBreakdown]_vars

\* a timeout set with setTimeout(f, 100) runs unless it is cleared first: the
\* step that leaves no timeout pending is FireRegenerate (SetN clears one
\* timeout and sets another), and it is taken if it stays possible
TimeoutRuns == regenTimer # {} /\ regenTimer' = {}

SpecPageFair == SpecPage /\ WF_regenTimer(TimeoutRuns)

-----------------------------------------------------------------------------
(* pages/OhmsLaw with its CircuitVisualization                             *)

\* values the voltage slider (min 1, max 24, step 0.1) is moved to
VoltageSlider == {Num(1), Rat(15, 2), Num(12), Num(24)}

\* values the current slider (min 0.1, max 10, step 0.1) is moved to
CurrentSlider == {Rat(1, 10), Num(1), Num(2), Num(10)}

\* values the resistance slider (min 1, max 20, step 0.1) is moved to
ResistanceSlider == {Num(1), Num(6), Num(20)}

\* Math.max(3, Math.min(15, Math.floor(current * 2)))
numElectrons(c) ==
    MathMax(Num(3), MathMin(Num(15), Floor(Mul(c, Num(2))))).num

\* current * 0.02
electronSpeed(c) == Mul(c, Rat(1, 50))

\* pathPoints.length
PathLength == 10

\* x % 1 for a finite x >= 0
Mod1(x) == Sub(x, Floor(x))

\* getPositionAlongPath(progress): the segment of the path the position is
\* interpolated on, pathPoints[segmentIndexClamped] to the point after it
getPositionAlongPath(progress) ==
    LET totalLength         == PathLength - 1
        segmentIndex        == Floor(Mul(progress, Num(totalLength)))
        segmentProgress     == Mod1(Mul(progress, Num(totalLength)))
        segmentIndexClamped == MathMin(segmentIndex, Num(PathLength - 2))
    IN  [segmentIndex |-> segmentIndex.num,
         segmentProgress |-> segmentProgress,
         p1 |-> segmentIndexClamped.num,
         p2 |-> segmentIndexClamped.num + 1]

\* the page and the circuit after their first render, before any effect ran
InitOhm ==
    /\ voltage = Num(12)
    /\ current = Num(2)
    /\ resistance = Num(6)
    /\ activeVariable = "voltage"
    /\ effectPending = TRUE
    /\ electrons = <<>>
    /\ initPending = TRUE
    /\ animationFrame = 0
    /\ signal = <<>>
    /\ config = DefaultConfig
    /\ result = NoResult
    /\ samplingRate = Num(nyquistRate)
    /\ sampleStatus = NoStatus
    /\ sArgs = NoArgs
    /\ sT = Num(0)
    /\ sPoints = <<>>
    /\ sPc = "idle"
    /\ sValues = <<>>
    /\ rT = Num(0)
    /\ rValue = 0
    /\ signalConfig = SIGNAL_CONFIG
    /\ callLog = NoLog
    /\ gArgs = NoGenerate
    /\ err = NoError
    /\ pN = 20
    /\ currentStep = 0
    /\ isAnimating = FALSE
    /\ regenTimer = NoTimer
    /\ autoTimer = FALSE
    /\ expandedSteps = {}

\* handleVoltageChange(value): setActiveVariable('voltage'); setVoltage(value);
\* setCurrent(value / resistance); the render that follows leaves both
\* effects to run
HandleVoltageChange ==
    /\ ~effectPending /\ ~initPending
    /\ \E value \in VoltageSlider :
           /\ activeVariable' = "voltage"
           /\ voltage' = value
           /\ current' = Div(value, resistance)
           /\ resistance' = resistance
    /\ effectPending' = TRUE
    /\ initPending' = (numElectrons(current') # numElectrons(current))
    /\ UNCHANGED <<electrons, animationFrame>>

\* handleCurrentChange(value): setActiveVariable('current'); setCurrent(value);
\* setResistance(voltage / value)
HandleCurrentChange ==
    /\ ~effectPending /\ ~initPending
    /\ \E value \in CurrentSlider :
           /\ activeVariable' = "current"
           /\ current' = value
           /\ resistance' = Div(voltage, value)
           /\ voltage' = voltage
    /\ effectPending' = TRUE
    /\ initPending' = (numElectrons(current') # numElectrons(current))
    /\ UNCHANGED <<electrons, animationFrame>>

\* handleResistanceChange(value): setActiveVariable('resistance');
\* setResistance(value); setCurrent(voltage / value)
HandleResistanceChange ==
    /\ ~effectPending /\ ~initPending
    /\ \E value \in ResistanceSlider :
           /\ activeVariable' = "resistance"
           /\ resistance' = value
           /\ current' = Div(voltage, value)
           /\ voltage' = voltage
    /\ effectPending' = TRUE
    /\ initPending' = (numElectrons(current') # numElectrons(current))
    /\ UNCHANGED <<electrons, animationFrame>>

\* the effect with the resistance branch computing current / voltage
RunEffect_Inverted ==
    /\ effectPending
    /\ voltage' = IF activeVariable = "voltage"
                      THEN Mul(current, resistance) ELSE voltage
    /\ current' = IF activeVariable = "current"
                      THEN Div(voltage, resistance) ELSE current
    /\ resistance' = IF activeVariable = "resistance"
                         THEN Div(current, voltage) ELSE resistance
    /\ effectPending' = (<<voltage', current', resistance'>>
                            # <<voltage, current, resistance>>)
    /\ initPending' = (initPending
                          \/ numElectrons(current') # numElectrons(current))
    /\ UNCHANGED <<activeVariable, electrons, animationFrame>>

\* the effect on [voltage, current, resistance, activeVariable]: the active
\* variable is recomputed from the other two; a state that changes makes
\* the effect run again
RunEffect ==
    /\ effectPending
    /\ voltage' = IF activeVariable = "voltage"
                      THEN Mul(current, resistance) ELSE voltage
    /\ current' = IF activeVariable = "current"
                      THEN Div(voltage, resistance) ELSE current
    /\ resistance' = IF activeVariable = "resistance"
                         THEN Div(voltage, current) ELSE resistance
    /\ effectPending' = (<<voltage', current', resistance'>>
                            # <<voltage, current, resistance>>)
    /\ initPending' = (initPending
                          \/ numElectrons(current') # numElectrons(current))
    /\ UNCHANGED <<activeVariable, electrons, animationFrame>>

\* the effect on [numElectrons]: electron i of numElectrons starts at
\* progress (i / numElectrons) % 1
InitElectrons ==
    /\ initPending
    /\ electrons' = [k \in 1..numElectrons(current) |->
                        [id |-> k - 1,
                         progress |-> Mod1(Rat(k - 1, numElectrons(current)))]]
    /\ initPending' = FALSE
    /\ UNCHANGED <<voltage, current, resistance, activeVariable,
                   effectPending, animationFrame>>

\* the interval callback with the progress not wrapped round
TickElectrons_NoWrap ==
    /\ ~effectPending /\ ~initPending
    /\ animationFrame < MaxFrames
    /\ animationFrame' = animationFrame + 1
    /\ electrons' = [k \in 1..Len(electrons) |->
                        [electrons[k] EXCEPT
                            !.progress = Add(@, electronSpeed(current))]]
    /\ UNCHANGED <<voltage, current, resistance, activeVariable,
                   effectPending, initPending>>

\* the interval callback, every 50 ms: setAnimationFrame(prev + 1) and every
\* electron moved on by electronSpeed, modulo 1
TickElectrons ==
    /\ ~effectPending /\ ~initPending
    /\ animationFrame < MaxFrames
    /\ animationFrame' = animationFrame + 1
    /\ electrons' = [k \in 1..Len(electrons) |->
                        [electrons[k] EXCEPT
                            !.progress = Mod1(Add(@, electronSpeed(current)))]]
    /\ UNCHANGED <<voltage, current, resistance, activeVariable,
                   effectPending, initPending>>

\* what no action of the Ohm's-law page changes
ohmFrame ==
    <<entropyVars, classifyVars, sampleVars, otherVars, err, pageVars>>

\* the page with its sliders, the animation interval not yet ticking
NextOhm ==
    \/ HandleVoltageChange /\ UNCHANGED ohmFrame
    \/ HandleCurrentChange /\ UNCHANGED ohmFrame
    \/ HandleResistanceChange /\ UNCHANGED ohmFrame
    \/ RunEffect /\ UNCHANGED ohmFrame
    \/ InitElectrons /\ UNCHANGED ohmFrame

SpecOhm == InitOhm /\ [][NextOhm]_vars

\* the circuit animated while the current slider is moved
NextCircuit ==
    \/ HandleCurrentChange /\ UNCHANGED ohmFrame
    \/ RunEffect /\ UNCHANGED ohmFrame
    \/ InitElectrons /\ UNCHANGED ohmFrame
    \/ TickElectrons /\ UNCHANGED ohmFrame

SpecCircuit == InitOhm /\ [][NextCircuit]_vars

NextGenerate ==
    GenerateSignal
        /\ UNCHANGED <<classifyVars, sampleVars, signalConfig, callLog, uiVars>>

SpecGenerate == InitGenerate /\ [][NextGenerate]_vars

NextEntropy ==
    CallCalculateEntropy /\ UNCHANGED <<classifyVars, sampleVars, otherVars, uiVars>>

SpecEntropy == InitEntropy /\ [][NextEntropy]_vars

NextClassify ==
    \/ CallGetSamplingStatus /\ UNCHANGED <<entropyVars, sampleVars, otherVars, uiVars>>
    \/ SetSamplingRate /\ UNCHANGED <<entropyVars, sampleVars, otherVars, uiVars>>

SpecClassify == InitClassify /\ [][NextClassify]_vars

NextSample ==
    \/ SampleEnter /\ UNCHANGED <<entropyVars, classifyVars, otherVars, uiVars>>
    \/ SampleLoop /\ UNCHANGED <<entropyVars, classifyVars, otherVars, uiVars>>
    \/ SampleReturn /\ UNCHANGED <<entropyVars, classifyVars, otherVars, uiVars>>
    \/ SampleSignal /\ UNCHANGED <<entropyVars, classifyVars, otherVars, uiVars>>
    \/ Reconstruct /\ UNCHANGED <<entropyVars, classifyVars, otherVars, uiVars>>

SpecSample == InitSample /\ [][NextSample]_vars

\* a step of the running call of generateSampleTimePoints
SampleStep ==
    /\ SampleEnter \/ SampleLoop \/ SampleReturn
    /\ UNCHANGED <<entropyVars, classifyVars, otherVars, uiVars>>

\* the call is straight-line code on one thread: while it can take a step it
\* takes one
SpecSampleFair == SpecSample /\ WF_vars(SampleStep)

-----------------------------------------------------------------------------
(* Properties of the entropy estimator (SpecEntropy)                       *)

RECURSIVE SumTo(_, _)
SumTo(s, n) == IF n = 0 THEN 0 ELSE s[n] + SumTo(s, n - 1)

\* the sum of a sequence of integers
SeqSum(s) == SumTo(s, Len(s))

RECURSIVE RatSumTo(_, _)
RatSumTo(s, n) == IF n = 0 THEN Num(0) ELSE Add(s[n], RatSumTo(s, n - 1))

\* the sum of a sequence of numbers
RatSum(s) == RatSumTo(s, Len(s))

\* the call has returned for a signal of at least one sample
ReturnedNonEmpty == result.kind = "ok" /\ Len(signal) > 0

\* C1: every sample of the signal, inside [-2, 2] or not, is assigned to
\* exactly one of the 20 bins: the histogram counts are >= 0, each is the number
\* of samples whose bin it is, and they sum to N; the probabilities returned
\* are these counts over N.
C1_EverySampleInOneBin ==
    LET d      == discretizeSignal(signal, NumBins)
        counts == BinCounts(signal, NumBins)
    IN  /\ Len(d) = Len(signal)
        /\ \A i \in DOMAIN d : d[i] \in {Num(b) : b \in 0 .. NumBins - 1}
        /\ \A b \in 1 .. NumBins :
               /\ counts[b] >= 0
               /\ counts[b] = Cardinality({i \in DOMAIN d : d[i] = Num(b - 1)})
        /\ SeqSum(counts) = Len(signal)
        /\ ReturnedNonEmpty =>
               \A b \in 1 .. NumBins :
                   result.probabilities[b] = Rat(counts[b], Len(signal))

\* a returned call whose signal has a sample below -2 and one above 2
C1_Witness ==
    /\ ReturnedNonEmpty
    /\ \E i, j \in DOMAIN signal :
           Lt(signal[i].value, BinMin) /\ Lt(BinMax, signal[j].value)

\* C2: for a non-empty signal the returned probabilities lie in [0, 1] and sum
\* to 1, and the returned entropy is >= 0.
C2_ProbabilitiesSumToOne ==
    ReturnedNonEmpty =>
        /\ \A b \in DOMAIN result.probabilities :
               /\ Leq(Num(0), result.probabilities[b])
               /\ Leq(result.probabilities[b], Num(1))
        /\ RatSum(result.probabilities) = Num(1)
        /\ result.entropy >= 0

\* a returned call whose samples lie in at least two bins
C2_Witness ==
    /\ ReturnedNonEmpty
    /\ NonZeroBins(result.probabilities) >= 2
    /\ result.entropy > 0

\* C3: for the empty signal the call returns entropy 0, no probabilities and
\* no steps; it raises nothing and no value is divided by N = 0.
C3_EmptySignal ==
    (result # NoResult /\ Len(signal) = 0) =>
        /\ result.kind = "ok"
        /\ result.entropy = 0
        /\ Len(result.probabilities) = 0
        /\ Len(result.stepByStep) = 0

\* the call has returned for the empty signal
C3_Witness == result.kind = "ok" /\ Len(signal) = 0

\* the caller's configuration has a bin count <= 0 or a range with hi <= lo
InvalidConfig(c) == c.numBins <= 0 \/ c.hi <= c.lo

\* C7 (as claimed): a call made with an invalid configuration ends in an
\* error and returns no result.
C7_InvalidConfigFails ==
    (result # NoResult /\ InvalidConfig(config)) => result.kind = "error"

\* C7 (amended): the call takes no bin count and no range, so an invalid
\* configuration never reaches it: whatever the caller wanted, the call raises
\* no error, every bin index used lies in [0, 19] and every probability
\* returned is a finite number in [0, 1].
C7_ConfigNeverReachesCall ==
    (result # NoResult /\ InvalidConfig(config)) =>
        /\ result.kind = "ok"
        /\ \A i \in DOMAIN signal :
               discretizeSignal(signal, NumBins)[i]
                   \in {Num(b) : b \in 0 .. NumBins - 1}
        /\ \A b \in DOMAIN result.probabilities :
               /\ IsFinite(result.probabilities[b])
               /\ Leq(Num(0), result.probabilities[b])
               /\ Leq(result.probabilities[b], Num(1))

\* a call has returned although the caller wanted no bins at all, for a
\* signal with samples outside [-2, 2]
C7_Witness ==
    /\ ReturnedNonEmpty
    /\ config.numBins <= 0
    /\ \E i \in DOMAIN signal : Lt(BinMax, signal[i].value)

\* C8 (as claimed): for a non-empty signal the probability array has as many
\* entries as the bin count the caller chose.
C8_CallerChosenBins ==
    ReturnedNonEmpty => Len(result.probabilities) = config.numBins

\* C8 (amended): the call takes the signal alone, and for a non-empty signal
\* the probability array has exactly 20 entries, whatever bin count and range
\* the caller wanted.
C8_AlwaysTwentyBins ==
    ReturnedNonEmpty => Len(result.probabilities) = 20

\* a returned call whose caller wanted another bin count than 20
C8_Witness == ReturnedNonEmpty /\ config.numBins # NumBins

AllIdentical(sig) == \A i, j \in DOMAIN sig : sig[i].value = sig[j].value

\* C9: for a non-empty signal whose values are all identical the returned
\* entropy is exactly 0, one probability is 1 and all others are 0.
C9_IdenticalValues ==
    (ReturnedNonEmpty /\ AllIdentical(signal)) =>
        /\ result.entropy = 0
        /\ Cardinality({b \in DOMAIN result.probabilities :
                            result.probabilities[b] = Num(1)}) = 1
        /\ \A b \in DOMAIN result.probabilities :
               result.probabilities[b] \in {Num(0), Num(1)}

\* a returned call on two or more identical samples
C9_Witness == ReturnedNonEmpty /\ AllIdentical(signal) /\ Len(signal) >= 2

\* every bin holds the same number (at least one) of the signal's samples
EqualCounts(sig) ==
    LET counts == BinCounts(sig, NumBins)
    IN  \A b \in 1 .. NumBins : counts[b] = counts[1] /\ counts[b] > 0

\* the truncation of one contribution is below one unit of 1/LogScale
EntropyTol == NumBins

\* C10: when every one of the 20 bins holds the same number of samples the
\* returned entropy is log2(20) within the rounding of the 20 contributions,
\* and no signal yields a larger entropy.
C10_UniformIsMaximal ==
    ReturnedNonEmpty =>
        /\ result.entropy <= IntLog2(NumBins) + EntropyTol
        /\ EqualCounts(signal) => result.entropy >= IntLog2(NumBins) - EntropyTol

\* a returned call on a signal with two samples in every bin
C10_Witness ==
    /\ ReturnedNonEmpty
    /\ EqualCounts(signal)
    /\ Len(signal) = 2 * NumBins

-----------------------------------------------------------------------------
(* Properties of getSamplingStatus (SpecClassify)                          *)

Classified == sampleStatus # NoStatus

\* C4 (as claimed): insufficient if fs < nyquistRate - 1, at-Nyquist if
\* |fs - nyquistRate| < 1, adequate otherwise.
C4_SymmetricTolerance ==
    Classified =>
        sampleStatus.status =
            IF Lt(samplingRate, Num(nyquistRate - 1)) THEN "insufficient"
            ELSE IF Lt(MathAbs(Sub(samplingRate, Num(nyquistRate))), Num(1))
                THEN "nyquist"
            ELSE "adequate"

\* C4 (amended): adequate if fs > nyquistRate, at-Nyquist if
\* nyquistRate - 1 < fs <= nyquistRate, insufficient if fs <= nyquistRate - 1;
\* so every fs strictly between 500 and 501 is adequate and fs = 499 is
\* insufficient.
C4_OneSidedTolerance ==
    Classified =>
        /\ Lt(Num(nyquistRate), samplingRate) => sampleStatus.status = "adequate"
        /\ (Lt(Num(nyquistRate - 1), samplingRate)
                /\ Leq(samplingRate, Num(nyquistRate)))
              => sampleStatus.status = "nyquist"
        /\ Leq(samplingRate, Num(nyquistRate - 1))
              => sampleStatus.status = "insufficient"

\* a rate strictly between 500 and 501 has been classified
C4_Witness ==
    /\ Classified
    /\ Lt(Num(nyquistRate), samplingRate)
    /\ Lt(samplingRate, Num(nyquistRate + 1))

\* C5: 500 is at-Nyquist, 600 adequate and 300 insufficient; every rate,
\* each slider value among them, gets exactly one of the three statuses.
C5_ThreeStatuses ==
    /\ \A fs \in SliderRates :
           getSamplingStatus(fs).status \in {"adequate", "nyquist", "insufficient"}
    /\ Classified =>
           /\ sampleStatus.status \in {"adequate", "nyquist", "insufficient"}
           /\ samplingRate = Num(500) => sampleStatus.status = "nyquist"
           /\ samplingRate = Num(600) => sampleStatus.status = "adequate"
           /\ samplingRate = Num(300) => sampleStatus.status = "insufficient"

\* the rate 500 has been classified
C5_Witness == Classified /\ samplingRate = Num(500)

-----------------------------------------------------------------------------
(* Properties of generateSampleTimePoints (SpecSample)                     *)

\* C6 (as claimed): a call with fs <= 0 ends in an InvalidRateError and
\* returns no sample list.
C6_InvalidRateFails ==
    (Leq(sArgs.fs, Num(0)) /\ sPc \notin {"idle", "call", "loop"})
        => sPc = "InvalidRateError"

\* C15: for a non-empty signal calculateEntropy returns exactly four steps,
\* '1', '2', '3', '4' in this order: step 1 carries the sample count N, step 2
\* the number of bins that hold a sample, step 3 the sum of the per-bin
\* contributions -p log2 p, and step 4 the entropy returned.
C15_FourSteps ==
    ReturnedNonEmpty =>
      LET counts == BinCounts(signal, NumBins)
      IN
        /\ Len(result.stepByStep) = 4
        /\ result.stepByStep[1].step = "1"
        /\ result.stepByStep[2].step = "2"
        /\ result.stepByStep[3].step = "3"
        /\ result.stepByStep[4].step = "4"
        /\ result.stepByStep[1].value = Len(signal)
        /\ result.stepByStep[2].value =
               Cardinality({b \in 1..NumBins : counts[b] > 0})
        /\ result.stepByStep[3].value =
               SeqSum([b \in 1..NumBins |->
                          IF counts[b] > 0
                              THEN Contribution(Rat(counts[b], Len(signal)))
                              ELSE 0])
        /\ result.stepByStep[4].value = result.entropy

\* steps of a signal that fills some bins and leaves others empty
C15_Witness ==
    /\ ReturnedNonEmpty
    /\ Len(signal) >= 3
    /\ result.stepByStep[2].value >= 2
    /\ result.stepByStep[2].value < Len(signal)
    /\ result.stepByStep[3].value > 0

\* C16: the derivation is consistent with the result: the values of steps 3
\* and 4 are the entropy returned (they are never negative, so the final
\* Math.max(0, entropy) changes nothing), and the value of step 2 is the
\* number of probabilities > 0 in the array returned.
C16_TraceConsistent ==
    ReturnedNonEmpty =>
        /\ result.stepByStep[3].value >= 0
        /\ result.stepByStep[3].value = result.entropy
        /\ result.stepByStep[4].value = result.stepByStep[3].value
        /\ result.stepByStep[2].value =
               Cardinality({b \in DOMAIN result.probabilities :
                               Lt(Num(0), result.probabilities[b])})

\* a result with an entropy between 0 and 1 bit
C16_Witness ==
    /\ ReturnedNonEmpty
    /\ result.entropy > 0
    /\ result.entropy < LogScale
    /\ result.stepByStep[4].value = result.entropy

-----------------------------------------------------------------------------
(* Properties of repeated calls (SpecCalls)                                *)

-----------------------------------------------------------------------------
(* Frame properties (SpecFrame)                                            *)

\* C18: calculateEntropy, the sampling functions and sincReconstruct leave
\* their inputs as they were: no step changes the signal array or a point of
\* it, nor the scalar arguments start, end and fs; sampleSignal leaves the
\* sample times unchanged, and sincReconstruct the sample times and the
\* sample amplitudes.
C18_InputsUnchanged ==
    [][/\ signal' = signal
       /\ sArgs' = sArgs
       /\ sPc \in {"returned", "sampled", "reconstructed"} => sPoints' = sPoints
       /\ sPc \in {"sampled", "reconstructed"} => sValues' = sValues]_vars

\* the estimator has returned for a signal with samples outside [-2, 2], and
\* sincReconstruct for a non-empty sample list
C18_Witness ==
    /\ result.kind = "ok"
    /\ \E i \in 1..Len(signal) : Lt(BinMax, signal[i].value)
    /\ sPc = "reconstructed"
    /\ Len(sPoints) > 0
    /\ Len(sValues) = Len(sPoints)

-----------------------------------------------------------------------------
(* Properties of the signal generator (SpecGenerate)                       *)

\* C19: generateSignal(N, noiseVariance) returns exactly N points whose
\* indices are 1, 2, ..., N in this order, every value in [-2, 2] whatever
\* Math.random() returns and whatever the noiseVariance >= 0; for N <= 0 it
\* returns the empty signal.
C19_GeneratedSignal ==
    (gArgs.returned /\ Leq(Num(0), gArgs.noiseVariance)) =>
        /\ Len(signal) = IntMax(0, gArgs.N)
        /\ \A i \in 1..Len(signal) :
               /\ signal[i].index = i
               /\ Leq(Num(-2), signal[i].value)
               /\ Leq(signal[i].value, Num(2))

\* three points: one held at the upper edge 2 by the clamp, one at the lower
\* edge, one strictly inside
C19_Witness ==
    /\ gArgs.returned
    /\ gArgs.N = 3
    /\ Lt(Num(1), gArgs.noiseVariance)
    /\ signal[1].value = Num(2)
    /\ signal[2].value = Num(-2)
    /\ Lt(Num(-2), signal[3].value) /\ Lt(signal[3].value, Num(2))

-----------------------------------------------------------------------------
(* Properties of sampling and reconstruction (SpecSample)                  *)

\* generateSampleTimePoints has returned
SampleReturned == sPc \in {"returned", "sampled", "reconstructed"}

\* sampleSignal has returned
Sampled == sPc \in {"sampled", "reconstructed"}

\* start + k / fs
GridPoint(k) == Add(sArgs.start, Div(Num(k), sArgs.fs))

\* end + 1 / (2 fs)
GridLimit == Add(sArgs.end, Div(Num(1), Mul(Num(2), sArgs.fs)))

Reconstructed == sPc = "reconstructed"

\* the 0-based indices of the samples whose time is >= the t of the call
NotBefore == {i \in 0..(Len(sPoints) - 1) : Leq(rT, sPoints[i + 1])}

\* the first of them
FirstNotBefore == CHOOSE i \in NotBefore : \A j \in NotBefore : i <= j

\* C12: sincReconstruct sums contributions only from samples within windowSize
\* (20) positions of the centre: at most windowSize before it and at most
\* windowSize from it onward, so at most 2 * windowSize terms whatever the
\* number of samples; and every index read is in [0, samples.length).
C12_WindowBounded ==
    Reconstructed =>
        LET W == WindowIndices(rT, sPoints)
        IN  /\ \A i \in W : 0 <= i /\ i < Len(sValues)
            /\ Cardinality(W) <= 2 * windowSize
            /\ NotBefore # {} =>
                   /\ \A i \in W : /\ FirstNotBefore - windowSize <= i
                                    /\ i < FirstNotBefore + windowSize
                   /\ Cardinality({i \in W : i < FirstNotBefore}) <= windowSize
                   /\ Cardinality({i \in W : i >= FirstNotBefore}) <= windowSize
            /\ NotBefore = {} => Cardinality(W) <= windowSize

\* more than 2 * windowSize samples, and a window the radius cuts on both sides
C12_Witness ==
    /\ Reconstructed
    /\ Len(sPoints) > 2 * windowSize
    /\ NotBefore # {}
    /\ Cardinality(WindowIndices(rT, sPoints)) = 2 * windowSize
    /\ 0 \notin WindowIndices(rT, sPoints)
    /\ (Len(sPoints) - 1) \notin WindowIndices(rT, sPoints)

\* C13: the centre of the window is the first sample whose time is >= t, and it
\* is summed; when no sample time is >= t the sum is over exactly the last
\* min(windowSize, number of samples) samples.
C13_CentreAndFallback ==
    Reconstructed =>
        LET W == WindowIndices(rT, sPoints)
            n == Len(sPoints)
        IN  IF NotBefore = {}
            THEN /\ centerIndex(rT, sPoints) = -1
                 /\ W = (n - (IF windowSize < n THEN windowSize ELSE n)) .. (n - 1)
                 /\ rValue = WindowSum(rT, sPoints, sValues, Ts(sArgs),
                                       n - Cardinality(W), n - 1)
            ELSE /\ centerIndex(rT, sPoints) = FirstNotBefore
                 /\ FirstNotBefore \in W

\* a t after the last of more than windowSize samples
C13_Witness ==
    /\ Reconstructed
    /\ NotBefore = {}
    /\ Len(sPoints) > windowSize
    /\ Cardinality(WindowIndices(rT, sPoints)) = windowSize

\* C14: the reference configuration is f1 = 50, f2 = 100, f3 = 250, dc = 7 and
\* nyquistRate = 500 in every state, with fMax the largest of the three
\* frequencies and nyquistRate twice fMax: no operation changes it.
C14_ConfigConstant ==
    /\ signalConfig.f1 = 50
    /\ signalConfig.f2 = 100
    /\ signalConfig.f3 = 250
    /\ signalConfig.dc = 7
    /\ signalConfig.nyquistRate = 500
    /\ signalConfig.fMax =
           IntMax(signalConfig.f1, IntMax(signalConfig.f2, signalConfig.f3))
    /\ signalConfig.nyquistRate = 2 * signalConfig.fMax

\* the configuration after the signal was sampled with it and reconstructed
C14_Witness ==
    /\ Reconstructed
    /\ Len(sValues) > 0
    /\ signalConfig.nyquistRate = 2 * signalConfig.f3

\* (t - t_n) / Ts for the sample of 0-based index i
SincArgument(i) == Div(Sub(rT, sPoints[i + 1]), Ts(sArgs))

\* pi * |x| in units of 1/TrigScale
PiTimes(x) == (PiFix * MathAbs(x).num) \div MathAbs(x).den

\* C20: sinc(0) = 1, sinc(n) = 0 for every non-zero integer n, and for every
\* other x sinc(x) = sin(pi x) / (pi x) (up to the fixed-point rounding of the
\* quotient); so sincReconstruct at a sample time t_n returns the amplitude
\* x[n] of that sample.
C20_SincInterpolates ==
    Reconstructed =>
        /\ \A i \in WindowIndices(rT, sPoints) :
               LET x == SincArgument(i)
               IN  /\ x = Num(0) => sinc(x) = TrigScale
                   /\ (x.den = 1 /\ x # Num(0)) => sinc(x) = 0
                   /\ x.den > 1 =>
                          Abs((sinc(x) * PiTimes(x)) \div TrigScale
                              - SinPi(MathAbs(x)))
                              <= PiTimes(x) \div TrigScale + 1
        /\ \A n \in 0..(Len(sPoints) - 1) :
               sPoints[n + 1] = rT => rValue = sValues[n + 1]

\* reconstructed at a sample time with samples on both sides in the window
C20_Witness ==
    /\ Reconstructed
    /\ \E n \in 1..(Len(sPoints) - 2) :
           /\ sPoints[n + 1] = rT
           /\ {n - 1, n, n + 1} \subseteq WindowIndices(rT, sPoints)
           /\ rValue = sValues[n + 1]

-----------------------------------------------------------------------------
(* Properties of the round trip (SpecRoundTrip)                            *)

\* C21: the signal sampled at fs = 2000 Hz over [0, 0.02] and reconstructed
\* with the window of 20 samples has a root-mean-square reconstruction error
\* below 0.05 over the interior of the interval, while sampled at 200 Hz the
\* error is materially larger (at least twice that threshold).
C21_RoundTripError ==
    err.pc = "returned" =>
        /\ sArgs.fs = Num(2000) => 20 * err.rms < TrigScale
        /\ sArgs.fs = Num(200) => 20 * err.rms >= 2 * TrigScale

-----------------------------------------------------------------------------
(* Properties of the entropy page (SpecPage, SpecPageFair)                 *)

\* C22: every pending regeneration is the one for the current slider value N
\* (a regeneration scheduled for an earlier value was cancelled and cannot
\* overwrite the signal); whenever none is pending the signal has exactly N
\* samples; and a pending regeneration leads to a state where none is
\* pending, the signal has exactly N samples and the current step is 0.
C22_Regenerated ==
    /\ [](\A n \in regenTimer : n = pN)
    /\ [](regenTimer = {} => Len(signal) = pN)
    /\ (regenTimer # {}) ~>
           (regenTimer = {} /\ Len(signal) = pN /\ currentStep = 0)

\* the slider was moved away from the initial 20 and the signal regenerated
C22_Witness ==
    /\ pN # 20
    /\ regenTimer = {}
    /\ Len(signal) = pN
    /\ ~isAnimating

\* C26: the current step stays in the valid range 0..3 in every reachable
\* state of the page, the states with the signal still empty included.
C26_StepInRange == currentStep >= 0 /\ currentStep <= maxSteps - 1

-----------------------------------------------------------------------------
(* Properties of the auto-advance interval (SpecAuto, SpecAutoFair)        *)

\* C27: with a non-empty signal and no user interaction every tick adds
\* exactly one to the current step while it is below 3 and leaves it alone at
\* 3 (so the step never decreases, skips or leaves 3), and the step
\* eventually is 3 for good.
C27_AutoAdvance ==
    /\ [][currentStep' = IF currentStep < 3 THEN currentStep + 1
                                             ELSE currentStep]_vars
    /\ <>[](currentStep = 3)

\* the interval has brought the step from 0 to the last one
C27_Witness == autoTimer /\ Len(signal) > 0 /\ currentStep = 3

-----------------------------------------------------------------------------
(* Properties of FormulaBreakdown (SpecBreakdown)                          *)

\* S with the membership of i flipped
Flipped(S, i) == (S \ {i}) \cup ({i} \ S)

\* C30: a step that changes the expanded set is the toggle of one step i: it
\* flips the membership of i, leaves every other step's membership, the
\* current step and the signal as they are; and toggling any step twice gives
\* the expanded set back.
C30_ToggleFlips ==
    /\ [](\A i \in 0..(StepCount - 1) :
             toggleExpand(toggleExpand(expandedSteps, i), i) = expandedSteps)
    /\ [][expandedSteps' # expandedSteps =>
             /\ \E i \in 0..(StepCount - 1) :
                    /\ expandedSteps' = Flipped(expandedSteps, i)
                    /\ (i \in expandedSteps') # (i \in expandedSteps)
                    /\ \A j \in (0..(StepCount - 1)) \ {i} :
                           (j \in expandedSteps') = (j \in expandedSteps)
             /\ currentStep' = currentStep
             /\ signal' = signal]_vars

\* the rows of steps 1 and 3 are expanded while step 2 is the current one
C30_Witness ==
    /\ expandedSteps = {1, 3}
    /\ currentStep = 2

-----------------------------------------------------------------------------
(* Properties of the Ohm's-law page (SpecOhm) and circuit (SpecCircuit)    *)

\* x is a finite number > 0
Positive(x) == IsFinite(x) /\ Lt(Num(0), x)

\* C28: voltage, current and resistance are finite and strictly positive in
\* every state, so no handler and no run of the effect divides by zero; and
\* once the effect has run after a slider change, voltage = current *
\* resistance.
C28_OhmsLawHolds ==
    /\ Positive(voltage) /\ Positive(current) /\ Positive(resistance)
    /\ ~effectPending => voltage = Mul(current, resistance)

\* the voltage slider was moved to 7.5 V and then the resistance slider to
\* 20 Ohm, and the effect has run
C28_Witness ==
    /\ ~effectPending
    /\ activeVariable = "resistance"
    /\ voltage = Rat(15, 2)
    /\ resistance = Num(20)
    /\ current = Rat(3, 8)

\* C29: for a current > 0 the number of electrons is between 3 and 15, it is
\* the number of electrons animated once the effect on it has run, every
\* electron's progress is in [0, 1) after any number of ticks, and the path
\* points its position is read from have indices in [0, pathPoints.length - 1]
\* (the segment index in [0, pathPoints.length - 2]).
C29_ElectronsOnPath ==
    Positive(current) =>
        /\ numElectrons(current) \in 3..15
        /\ ~initPending => Len(electrons) = numElectrons(current)
        /\ \A k \in 1..Len(electrons) :
               LET progress == electrons[k].progress
                   pos      == getPositionAlongPath(progress)
               IN  /\ Leq(Num(0), progress) /\ Lt(progress, Num(1))
                   /\ pos.p1 \in 0..(PathLength - 2)
                   /\ pos.p2 \in 1..(PathLength - 1)
                   /\ pos.p1 = pos.segmentIndex

\* 15 electrons after two ticks, one of them wrapped round past the end of
\* the path and one on the last segment
C29_Witness ==
    /\ animationFrame >= 2
    /\ Len(electrons) = 15
    /\ \E k \in 1..Len(electrons) :
           Lt(electrons[k].progress, Rat(k - 1, 15))
    /\ \E k \in 1..Len(electrons) :
           getPositionAlongPath(electrons[k].progress).p1 = PathLength - 2

-----------------------------------------------------------------------------
(* Properties of the histogram and of the entropy sum (SpecEntropy)        *)

\* the width of one of the 20 bins of [-2, 2]
BinWidth == Div(Sub(BinMax, BinMin), Num(NumBins))

\* the lower edge of bin b
BinEdge(b) == Add(BinMin, Mul(Num(b), BinWidth))

\* C23: the bin index of a sample value v is floor((v - lo) / binWidth) with
\* binWidth = (hi - lo) / numBins, clamped into [0, numBins - 1]: inside
\* [lo, hi) it is the b with lo + b * binWidth <= v < lo + (b + 1) * binWidth,
\* every v < lo has bin 0, every v >= hi (v = hi too) has bin numBins - 1, and
\* the bin is monotone non-decreasing in v.
C23_BinIndex ==
    LET d == discretizeSignal(signal, NumBins)
    IN  \A i \in DOMAIN signal :
            LET v == signal[i].value
            IN  /\ \E b \in 0 .. NumBins - 1 :
                       /\ d[i] = Num(b)
                       /\ (Leq(BinMin, v) /\ Lt(v, BinMax)) =>
                              Leq(BinEdge(b), v) /\ Lt(v, BinEdge(b + 1))
                /\ Lt(v, BinMin) => d[i] = Num(0)
                /\ Leq(BinMax, v) => d[i] = Num(NumBins - 1)
                /\ \A j \in DOMAIN signal :
                       Leq(v, signal[j].value) => Leq(d[i], d[j])

\* a returned call whose signal has a sample below lo, one equal to hi and one
\* strictly inside a bin
C23_Witness ==
    /\ ReturnedNonEmpty
    /\ \E i, j, k \in DOMAIN signal :
           /\ Lt(signal[i].value, BinMin)
           /\ signal[j].value = BinMax
           /\ signal[k].value = Rat(1, 10)

\* C24: Math.log2 is called only with probabilities p > 0, never with 0; a bin
\* with p = 0 adds nothing to the sum; every contribution -p * log2(p) added
\* is >= 0; so the running sum over the bins is never negative and never
\* decreases, and the entropy returned is the sum of the contributions.
C24_SumOverNonZero ==
    ReturnedNonEmpty =>
        LET p == result.probabilities
            c == contributions(p)
        IN  /\ \A k \in 1 .. Len(Log2Calls(p)) : Lt(Num(0), Log2Calls(p)[k])
            /\ Len(c) = NonZeroBins(p)
            /\ \A k \in 1 .. Len(c) : c[k] >= 0
            /\ SeqSum(c) = result.entropy
            /\ SumContributions(p, 0) = 0
            /\ \A n \in 1 .. Len(p) :
                   /\ SumContributions(p, n) >= SumContributions(p, n - 1)
                   /\ p[n] = Num(0) =>
                          SumContributions(p, n) = SumContributions(p, n - 1)
                   /\ SumContributions(p, n) >= 0

\* a returned call with empty bins and at least two occupied ones
C24_Witness ==
    /\ ReturnedNonEmpty
    /\ NonZeroBins(result.probabilities) >= 2
    /\ \E b \in 1 .. NumBins : result.probabilities[b] = Num(0)
    /\ result.entropy > 0

-----------------------------------------------------------------------------
(* Termination of generateSampleTimePoints (SpecSampleFair)                *)

\* fs > 0 and start <= end, both finite
AcceptedArgs ==
    /\ Lt(Num(0), sArgs.fs)
    /\ IsFinite(sArgs.start) /\ IsFinite(sArgs.end)
    /\ Leq(sArgs.start, sArgs.end)

\* floor((end - start) * fs + 1/2) + 1
PointCount ==
    Floor(Add(Mul(Sub(sArgs.end, sArgs.start), sArgs.fs), Rat(1, 2))).num + 1

=============================================================================
